---------------------------- MODULE Spec2Model ----------------------------
(***************************************************************************)
(* Issue tracker REST backend (backend/routes/issueRoutes-final.js on top  *)
(* of backend/models/Issue-final.js).  Each HTTP request is a process that *)
(* advances from one awaited store call to the next; the issue store and   *)
(* the comment store are shared by all requests in flight.                 *)
(***************************************************************************)
EXTENDS Integers, Sequences, FiniteSets, TLC

(***************************************************************************)
(* Bounds of the model.                                                    *)
(***************************************************************************)
MaxIssues == 2

MaxComments == 2

MaxRequests == 4

(***************************************************************************)
(* Program constants.                                                      *)
(***************************************************************************)
ObjectIdLength == 24

TitleMinLength == 3

TitleMaxLength == 200

DescriptionMaxLength == 2000

AssigneeMaxLength == 100

(***************************************************************************)
(* Strings are sequences of one-character strings, so that trimming, the   *)
(* length validators and the id pattern are computed on the characters.    *)
(***************************************************************************)
Rep(c, n) == [i \in 1..n |-> c]

WhiteSpace == {" ", "\t", "\n"}

RECURSIVE TrimStart(_)
TrimStart(s) ==
    IF s # <<>> /\ Head(s) \in WhiteSpace THEN TrimStart(Tail(s)) ELSE s

RECURSIVE TrimEnd(_)
TrimEnd(s) ==
    IF s # <<>> /\ s[Len(s)] \in WhiteSpace
    THEN TrimEnd(SubSeq(s, 1, Len(s) - 1))
    ELSE s

\* String.prototype.trim, also the schema's `trim: true` setter.
Trim(s) == TrimEnd(TrimStart(s))

DecDigits == {"0", "1", "2", "3", "4", "5", "6", "7", "8", "9"}

LowerHex == {"a", "b", "c", "d", "e", "f"}

UpperHex == {"A", "B", "C", "D", "E", "F"}

\* the character class [0-9a-fA-F]
HexChars == DecDigits \cup LowerHex \cup UpperHex

\* Faulty variant: the pattern without its length, /^[0-9a-fA-F]+$/.
IsObjectIdFormatAnyLength(s) == \A i \in 1..Len(s) : s[i] \in HexChars

\* issueId.match(/^[0-9a-fA-F]{24}$/)
IsObjectIdFormat(s) ==
    /\ Len(s) = ObjectIdLength
    /\ \A i \in 1..Len(s) : s[i] \in HexChars

LowerDigits == <<"0", "1", "2", "3", "4", "5", "6", "7", "8", "9",
                 "a", "b", "c", "d", "e", "f">>

UpperDigits == <<"0", "1", "2", "3", "4", "5", "6", "7", "8", "9",
                 "A", "B", "C", "D", "E", "F">>

DigitVal(c) ==
    CHOOSE v \in 0..15 : LowerDigits[v + 1] = c \/ UpperDigits[v + 1] = c

\* The ObjectId a route parameter is cast to by findById and by the
\* { issue: issueId } filters: the value of the hexadecimal digits, whatever
\* their case.  Only called on strings that are hexadecimal.
RECURSIVE HexValue(_, _)
HexValue(s, acc) ==
    IF s = <<>> THEN acc ELSE HexValue(Tail(s), acc * 16 + DigitVal(Head(s)))

CastObjectId(s) == HexValue(s, 0)

IsHexString(s) == \A i \in 1..Len(s) : s[i] \in HexChars

\* String(id) of an ObjectId the driver generated: lower-case digits.
ObjectIdString(n) == Rep("0", ObjectIdLength - 1) \o <<LowerDigits[n + 1]>>

ObjectIdUpperString(n) == Rep("0", ObjectIdLength - 1) \o <<UpperDigits[n + 1]>>

\* The k-th ObjectId the driver generates; ids are never generated twice.
GenId(k) == 9 + k

(***************************************************************************)
(* Users, tokens and the inputs requests are drawn from.                   *)
(***************************************************************************)
Users == {"u1", "u2"}

NoUser == "none"

Tokens == {"tok_u1", "tok_u2", "missing", "invalid", "expired"}

Slots == {"r1", "r2"}

Statuses == {"Open", "In Progress", "Resolved", "Closed"}

Priorities == {"Low", "Medium", "High", "Urgent"}

SchemaPaths == {"title", "description", "status", "priority", "assignee", "author"}

Has(b, f) == f \in DOMAIN b

NoBody == [f \in {} |-> ""]

TitleOk == <<" ", "B", "u", "g", " ">>

TitlePadShort == <<" ", "a", "b", " ">>

TitleMax == <<" ">> \o Rep("x", TitleMaxLength) \o <<" ">>

TitleTooLong == Rep("x", TitleMaxLength + 1)

\* req.body of POST / and PUT /:id
IssueBodies ==
    { [title |-> TitleOk],
      [title |-> TitleOk, author |-> "u2", status |-> "Resolved"],
      [title |-> TitleMax, priority |-> "High", status |-> "In Progress",
       description |-> <<" ", "d">>, assignee |-> <<"a", " ">>],
      [title |-> TitlePadShort],
      [title |-> TitleTooLong, status |-> "Closed"],
      [status |-> "Closed", author |-> "u1"],
      [title |-> TitleOk, status |-> "Done", priority |-> "Critical"] }

\* req.body of POST /:id/comments
CommentBodies ==
    { NoBody,
      [content |-> <<>>],
      [content |-> <<" ", " ">>],
      [content |-> <<" ", "o", "k", " ">>] }

\* req.params.id
BadIdShort == <<"a", "b", "c">>

BadIdChar == Rep("0", ObjectIdLength - 1) \o <<"g">>

ParamIds ==
    { ObjectIdString(GenId(k)) : k \in 1..MaxIssues }
        \cup { ObjectIdUpperString(GenId(1)), BadIdShort, BadIdChar }

(***************************************************************************)
(* The Issue schema: setters, defaults and validators.                     *)
(***************************************************************************)
StringPaths == {"title", "description", "assignee"}

\* Faulty variant: only the leading white space is removed.
CastPathTrimStart(f, v) == IF f \in StringPaths THEN TrimStart(v) ELSE v

\* The value a path is cast to: `trim: true` on the three string paths.
CastPath(f, v) == IF f \in StringPaths THEN Trim(v) ELSE v

\* Faulty variant: the title validated for presence only, as a schema without
\* minlength and maxlength would.
PathErrorsNoLength(f, v) ==
    CASE f = "title" -> IF Len(v) = 0 THEN {"Issue title is required"} ELSE {}
      [] f = "status" ->
            IF v \in Statuses THEN {}
            ELSE {"Status must be one of: Open, In Progress, Resolved, Closed"}
      [] f = "priority" ->
            IF v \in Priorities THEN {}
            ELSE {"Priority must be one of: Low, Medium, High, Urgent"}
      [] OTHER -> {}

\* Faulty variant: status and priority without their enum validators.
PathErrorsNoEnum(f, v) ==
    CASE f = "title" ->
            IF Len(v) = 0 THEN {"Issue title is required"}
            ELSE IF Len(v) < TitleMinLength
                 THEN {"Title must be at least 3 characters long"}
            ELSE IF Len(v) > TitleMaxLength
                 THEN {"Title cannot exceed 200 characters"}
            ELSE {}
      [] f = "description" ->
            IF Len(v) > DescriptionMaxLength
            THEN {"Description cannot exceed 2000 characters"} ELSE {}
      [] f = "assignee" ->
            IF Len(v) > AssigneeMaxLength
            THEN {"Assignee name cannot exceed 100 characters"} ELSE {}
      [] f = "author" ->
            IF v = NoUser THEN {"Issue author is required"} ELSE {}
      [] OTHER -> {}

\* The validators of one path on a cast value, first failure only.
PathErrors(f, v) ==
    CASE f = "title" ->
            IF Len(v) = 0 THEN {"Issue title is required"}
            ELSE IF Len(v) < TitleMinLength
                 THEN {"Title must be at least 3 characters long"}
            ELSE IF Len(v) > TitleMaxLength
                 THEN {"Title cannot exceed 200 characters"}
            ELSE {}
      [] f = "description" ->
            IF Len(v) > DescriptionMaxLength
            THEN {"Description cannot exceed 2000 characters"} ELSE {}
      [] f = "status" ->
            IF v \in Statuses THEN {}
            ELSE {"Status must be one of: Open, In Progress, Resolved, Closed"}
      [] f = "priority" ->
            IF v \in Priorities THEN {}
            ELSE {"Priority must be one of: Low, Medium, High, Urgent"}
      [] f = "assignee" ->
            IF Len(v) > AssigneeMaxLength
            THEN {"Assignee name cannot exceed 100 characters"} ELSE {}
      [] f = "author" ->
            IF v = NoUser THEN {"Issue author is required"} ELSE {}
      [] OTHER -> {}

\* new Issue(data): schema defaults, then the cast values of the paths given.
Defaults ==
    [title |-> <<>>, description |-> <<>>, status |-> "Open",
     priority |-> "Low", assignee |-> <<>>, author |-> NoUser]

NewDocument(data) ==
    [f \in SchemaPaths |->
        IF Has(data, f) THEN CastPath(f, data[f]) ELSE Defaults[f]]

\* document.validate() on save: every path of the schema.
DocumentErrors(doc) ==
    UNION { PathErrors(f, doc[f]) : f \in SchemaPaths }

\* Update validators (runValidators: true): only the paths in the update.
UpdateErrors(patch) ==
    UNION { PathErrors(f, CastPath(f, patch[f])) :
                f \in DOMAIN patch \cap SchemaPaths }

\* Faulty variant: the update replaces the whole document by the patch.
ApplyUpdateReplace(doc, patch) == NewDocument(patch)

\* The document after { $set: patch }.
ApplyUpdate(doc, patch) ==
    [f \in SchemaPaths |->
        IF Has(patch, f) THEN CastPath(f, patch[f]) ELSE doc[f]]

(***************************************************************************)
(* State.                                                                  *)
(*   issues     the Issue collection: ObjectId -> document                 *)
(*   comments   the Comment collection: comment number -> document         *)
(*   issueSeq   how many issue ids have been generated                     *)
(*   commentSeq how many comment ids have been generated                   *)
(*   reqs       the request each connection slot is serving                *)
(*   deleted    history: the ids whose DELETE was answered with success    *)
(*   served     history: how many requests have arrived                    *)
(*   hist       history of each issue, kept until its deletion is answered: *)
(*              the user who created it and the body it was created from   *)
(*              (both kept while it is new: until it is patched, a request *)
(*              other than a GET of it arrives, or a request other than    *)
(*              its POST / is closed), and how many comments were added to *)
(*              it with success                                            *)
(***************************************************************************)
VARIABLES issues, comments, issueSeq, commentSeq, reqs, deleted, served, hist

vars == <<issues, comments, issueSeq, commentSeq, reqs, deleted, served, hist>>

Ops ==
    {"listAllIssues", "listMyIssues", "myStatistics", "getIssue", "createIssue",
     "updateIssue", "deleteIssue", "listComments", "addComment"}

IdOps == {"getIssue", "updateIssue", "deleteIssue", "listComments", "addComment"}

NoId == <<>>

\* A slot with no request.  reads and writes count the calls the request
\* has made on the Issue and Comment models; existed, owner and gone record,
\* for the history, whether the issue the id names was stored and who its
\* author was, and whether its deletion had been answered, when the request
\* arrived.
IdleReq ==
    [op |-> "none", token |-> "none", id |-> NoId, body |-> NoBody,
     pc |-> "idle", user |-> NoUser, oid |-> 0, status |-> 0, msg |-> "",
     errors |-> {}, data |-> <<>>, stats |-> NoBody, reads |-> 0, writes |-> 0,
     existed |-> FALSE, owner |-> NoUser, gone |-> FALSE]

Init ==
    /\ issues = [i \in {} |-> Defaults]
    /\ comments = [c \in {} |-> [content |-> <<>>, author |-> NoUser, issue |-> 0]]
    /\ issueSeq = 0
    /\ commentSeq = 0
    /\ reqs = [s \in Slots |-> IdleReq]
    /\ deleted = {}
    /\ served = 0
    /\ hist = [i \in {} |-> [draft |-> NoBody, creator |-> NoUser, added |-> 0]]

Free(s) == reqs[s].pc = "idle"

Done(s) == reqs[s].pc = "done"

InFlight(s) == reqs[s].pc \notin {"idle", "done"}

\* res.status(code).json({ success, message, errors, data })
Respond(r, code, message, errs, payload) ==
    [r EXCEPT !.pc = "done", !.status = code, !.msg = message,
              !.errors = errs, !.data = payload]

Pending(op) ==
    Cardinality({s \in Slots : InFlight(s) /\ reqs[s].op = op})

\* A request reaches the router.
\* History: the ObjectId each id a request may carry names, -1 if none.
NamedIssue ==
    [id \in ParamIds \cup {NoId} |->
        IF IsHexString(id) /\ id # NoId THEN CastObjectId(id) ELSE -1]

\* History: the record of an issue that is no longer new.
NotNew(h) == [h EXCEPT !.draft = NoBody, !.creator = NoUser]

Arrive(s, op, token, id, body) ==
    /\ Free(s)
    /\ served < MaxRequests
    /\ served' = served + 1
    /\ op = "createIssue" => issueSeq + Pending("createIssue") < MaxIssues
    /\ op = "addComment" => commentSeq + Pending("addComment") < MaxComments
    /\ \E named \in {NamedIssue[id]} :
           /\ reqs' = [reqs EXCEPT ![s] =
                  [IdleReq EXCEPT !.op = op, !.token = token, !.id = id,
                                  !.body = body, !.pc = "protect",
                                  !.existed = named \in DOMAIN issues,
                                  !.owner = IF named \in DOMAIN issues
                                            THEN issues[named].author
                                            ELSE NoUser,
                                  !.gone = named \in deleted]]
           /\ hist' = [i \in DOMAIN hist |->
                          IF op = "getIssue" /\ named = i
                          THEN hist[i] ELSE NotNew(hist[i])]
    /\ UNCHANGED <<issues, comments, issueSeq, commentSeq, deleted>>

\* The response has been sent; the slot takes the next request.
Close(s) ==
    /\ Done(s)
    /\ reqs' = [reqs EXCEPT ![s] = IdleReq]
    /\ hist' = [i \in DOMAIN hist |->
                    IF reqs[s].op = "createIssue" /\ reqs[s].oid = i
                    THEN hist[i] ELSE NotNew(hist[i])]
    /\ UNCHANGED <<issues, comments, issueSeq, commentSeq, deleted, served>>

\* AuthService.resolveIdentity: the acting user of a token, or none.
ResolveIdentity(token) ==
    CASE token = "tok_u1" -> "u1"
      [] token = "tok_u2" -> "u2"
      [] OTHER -> NoUser

\* Faulty variant: router.use(protect) registered after the first route.
ProtectAfterFirstRoute(op) == op \in Ops \ {"listAllIssues"}

\* router.use(protect) is registered before every route of the router.
ProtectApplies(op) == op \in Ops

\* The protect middleware: next() with req.user set, or 401.
Protect(s) ==
    /\ reqs[s].pc = "protect"
    /\ LET r == reqs[s]
           u == ResolveIdentity(r.token)
       IN  reqs' = [reqs EXCEPT ![s] =
                IF ProtectApplies(r.op) /\ u = NoUser
                THEN Respond(r, 401, "Not authorized", {}, <<>>)
                ELSE [r EXCEPT !.pc = "handler", !.user = u]]
    /\ UNCHANGED <<issues, comments, issueSeq, commentSeq, deleted, served, hist>>

(***************************************************************************)
(* Store queries.                                                          *)
(***************************************************************************)
\* .sort({ createdAt: -1 }): ids are generated in creation order.
RECURSIVE Newest(_)
Newest(S) ==
    IF S = {} THEN <<>>
    ELSE LET m == CHOOSE x \in S : \A y \in S : y <= x
         IN  <<m>> \o Newest(S \ {m})

\* Issue.findById(id): the document as a one-element sequence, or null (<<>>).
FindIssue(i) ==
    IF i \in DOMAIN issues THEN <<[id |-> i, doc |-> issues[i]]>> ELSE <<>>

\* Comment.countDocuments({ issue: i })
CountComments(i) == Cardinality({c \in DOMAIN comments : comments[c].issue = i})

\* Comment.find({ issue: i }).sort({ createdAt: -1 })
FindComments(i) ==
    LET ids == Newest({c \in DOMAIN comments : comments[c].issue = i})
    IN  [k \in 1..Len(ids) |-> [id |-> ids[k], doc |-> comments[ids[k]]]]

StatKeys == {"total", "open", "inProgress", "resolved", "closed"}

StatStatus(key) ==
    CASE key = "open" -> "Open"
      [] key = "inProgress" -> "In Progress"
      [] key = "resolved" -> "Resolved"
      [] key = "closed" -> "Closed"

\* Faulty variant: the total counted over all authors.
CountIssuesTotalUnscoped(key, u) ==
    Cardinality({i \in DOMAIN issues :
                    /\ key # "total" => issues[i].author = u
                    /\ key # "total" => issues[i].status = StatStatus(key)})

\* Issue.countDocuments({ author: u }) and ({ author: u, status: ... })
CountIssues(key, u) ==
    Cardinality({i \in DOMAIN issues :
                    /\ issues[i].author = u
                    /\ key # "total" => issues[i].status = StatStatus(key)})

\* (x).toFixed(1) of x = solved / total * 100, kept in tenths.
ToFixed1(solved, total) == (2000 * solved + total) \div (2 * total)

\* The statistics object of GET /my-stats.
Statistics(c) ==
    [total |-> c["total"], open |-> c["open"], inProgress |-> c["inProgress"],
     resolved |-> c["resolved"], closed |-> c["closed"],
     solved |-> c["resolved"] + c["closed"],
     ongoing |-> c["open"] + c["inProgress"],
     completionRate |->
        IF c["total"] > 0
        THEN [type |-> "string",
              tenths |-> ToFixed1(c["resolved"] + c["closed"], c["total"])]
        ELSE [type |-> "number", tenths |-> 0]]

(***************************************************************************)
(* GET / and GET /my-issues                                                *)
(***************************************************************************)
\* Faulty variant: GET /my-issues without the author filter.
ListFilterAll(r) == DOMAIN issues

\* Issue.find() of GET /, Issue.find({ author: req.user.id }) of GET /my-issues.
ListFilter(r) ==
    IF r.op = "listMyIssues"
    THEN {i \in DOMAIN issues : issues[i].author = r.user}
    ELSE DOMAIN issues

ListRespond(r, views) ==
    IF \A k \in 1..Len(views) : views[k].commentCount >= 0
    THEN Respond(r, 200, "", {}, views)
    ELSE [r EXCEPT !.pc = "counts", !.data = views]

\* Issue.find(...).populate().sort(); the counts are then all in flight.
ListFind(s) ==
    /\ reqs[s].pc = "handler"
    /\ reqs[s].op \in {"listAllIssues", "listMyIssues"}
    /\ LET r == [reqs[s] EXCEPT !.reads = @ + 1]
           ids == Newest(ListFilter(r))
           views == [k \in 1..Len(ids) |->
                        [id |-> ids[k], doc |-> issues[ids[k]], commentCount |-> -1]]
       IN  reqs' = [reqs EXCEPT ![s] = ListRespond(r, views)]
    /\ UNCHANGED <<issues, comments, issueSeq, commentSeq, deleted, served, hist>>

\* One Comment.countDocuments({ issue: issue._id }) of the Promise.all.
ListCount(s, k) ==
    /\ reqs[s].pc = "counts"
    /\ k \in 1..Len(reqs[s].data)
    /\ reqs[s].data[k].commentCount = -1
    /\ LET r == [reqs[s] EXCEPT !.reads = @ + 1]
           views == [r.data EXCEPT ![k].commentCount = CountComments(r.data[k].id)]
       IN  reqs' = [reqs EXCEPT ![s] = ListRespond(r, views)]
    /\ UNCHANGED <<issues, comments, issueSeq, commentSeq, deleted, served, hist>>

(***************************************************************************)
(* GET /my-stats                                                           *)
(***************************************************************************)
\* One of the five Issue.countDocuments of the Promise.all.
StatsCount(s, key) ==
    /\ reqs[s].pc = "handler"
    /\ reqs[s].op = "myStatistics"
    /\ key \in StatKeys \ DOMAIN reqs[s].stats
    /\ LET r == reqs[s]
           c == [x \in DOMAIN r.stats \cup {key} |->
                    IF x = key THEN CountIssues(key, r.user) ELSE r.stats[x]]
           q == [r EXCEPT !.reads = @ + 1, !.stats = c]
       IN  reqs' = [reqs EXCEPT ![s] =
                IF DOMAIN c = StatKeys
                THEN Respond(q, 200, "", {}, <<Statistics(c)>>)
                ELSE q]
    /\ UNCHANGED <<issues, comments, issueSeq, commentSeq, deleted, served, hist>>

(***************************************************************************)
(* GET /:id                                                                *)
(***************************************************************************)
GetIssue(s) ==
    /\ reqs[s].pc = "handler"
    /\ reqs[s].op = "getIssue"
    /\ LET r == reqs[s]
       IN  reqs' = [reqs EXCEPT ![s] =
                IF ~IsObjectIdFormat(r.id)
                THEN Respond(r, 400, "Invalid issue ID format", {}, <<>>)
                ELSE LET found == FindIssue(CastObjectId(r.id))
                         q == [r EXCEPT !.reads = @ + 1]
                     IN  IF Len(found) = 0
                         THEN Respond(q, 404, "Issue not found", {}, <<>>)
                         ELSE Respond(q, 200, "", {}, found)]
    /\ UNCHANGED <<issues, comments, issueSeq, commentSeq, deleted, served, hist>>

(***************************************************************************)
(* POST /                                                                  *)
(***************************************************************************)
\* Faulty variant: { author: req.user.id, ...req.body }
IssueDataBodyLast(body, user) ==
    [f \in DOMAIN body \cup {"author"} |->
        IF Has(body, f) THEN body[f] ELSE user]

\* { ...req.body, author: req.user.id }
IssueData(body, user) ==
    [f \in DOMAIN body \cup {"author"} |->
        IF f = "author" THEN user ELSE body[f]]

\* Issue.create(issueData): validation, then the insert.
CreateIssue(s) ==
    /\ reqs[s].pc = "handler"
    /\ reqs[s].op = "createIssue"
    /\ LET r == reqs[s]
           doc == NewDocument(IssueData(r.body, r.user))
           errs == DocumentErrors(doc)
           new == GenId(issueSeq + 1)
       IN  IF errs # {}
           THEN /\ reqs' = [reqs EXCEPT ![s] =
                                Respond(r, 400, "Validation failed", errs, <<>>)]
                /\ UNCHANGED <<issues, issueSeq, hist>>
           ELSE /\ issues' = [i \in DOMAIN issues \cup {new} |->
                                IF i = new THEN doc ELSE issues[i]]
                /\ issueSeq' = issueSeq + 1
                /\ hist' = [i \in DOMAIN hist \cup {new} |->
                              IF i = new
                              THEN [draft |-> r.body, creator |-> r.user,
                                    added |-> 0]
                              ELSE hist[i]]
                /\ reqs' = [reqs EXCEPT ![s] =
                                [r EXCEPT !.pc = "populate", !.oid = new,
                                          !.writes = @ + 1]]
    /\ UNCHANGED <<comments, commentSeq, deleted, served>>

\* Issue.findById(issue._id).populate(...), then 201.
CreatePopulate(s) ==
    /\ reqs[s].pc = "populate"
    /\ reqs[s].op = "createIssue"
    /\ LET r == [reqs[s] EXCEPT !.reads = @ + 1]
       IN  reqs' = [reqs EXCEPT ![s] =
                Respond(r, 201, "Issue created successfully", {}, FindIssue(r.oid))]
    /\ UNCHANGED <<issues, comments, issueSeq, commentSeq, deleted, served, hist>>

(***************************************************************************)
(* PUT /:id                                                                *)
(***************************************************************************)
\* The id check and Issue.findById(issueId).
UpdateFind(s) ==
    /\ reqs[s].pc = "handler"
    /\ reqs[s].op = "updateIssue"
    /\ LET r == reqs[s]
       IN  reqs' = [reqs EXCEPT ![s] =
                IF ~IsObjectIdFormat(r.id)
                THEN Respond(r, 400, "Invalid issue ID format", {}, <<>>)
                ELSE LET q == [r EXCEPT !.reads = @ + 1,
                                        !.oid = CastObjectId(r.id)]
                     IN  IF q.oid \notin DOMAIN issues
                         THEN Respond(q, 404, "Issue not found", {}, <<>>)
                         ELSE [q EXCEPT !.pc = "update"]]
    /\ UNCHANGED <<issues, comments, issueSeq, commentSeq, deleted, served, hist>>

\* Issue.findByIdAndUpdate(issueId, req.body, { new: true, runValidators: true })
UpdateApply(s) ==
    /\ reqs[s].pc = "update"
    /\ LET r == reqs[s]
           errs == UpdateErrors(r.body)
           q == [r EXCEPT !.writes = @ + 1]
       IN  IF errs # {}
           THEN /\ reqs' = [reqs EXCEPT ![s] =
                                Respond(r, 400, "Validation failed", errs, <<>>)]
                /\ UNCHANGED <<issues, hist>>
           ELSE IF r.oid \in DOMAIN issues
           THEN /\ issues' = [issues EXCEPT ![r.oid] = ApplyUpdate(@, r.body)]
                /\ reqs' = [reqs EXCEPT ![s] =
                                Respond(q, 200, "Issue updated successfully", {},
                                        <<[id |-> r.oid,
                                           doc |-> ApplyUpdate(issues[r.oid], r.body)]>>)]
                /\ hist' = [hist EXCEPT ![r.oid] =
                                NotNew(@)]
           ELSE /\ reqs' = [reqs EXCEPT ![s] =
                                Respond(q, 200, "Issue updated successfully", {}, <<>>)]
                /\ UNCHANGED <<issues, hist>>
    /\ UNCHANGED <<comments, issueSeq, commentSeq, deleted, served>>

(***************************************************************************)
(* DELETE /:id                                                             *)
(***************************************************************************)
\* Faulty variant: the ownership check of lines 351-357 in force.
DeleteFindOwnerOnly(s) ==
    /\ reqs[s].pc = "handler"
    /\ reqs[s].op = "deleteIssue"
    /\ LET r == reqs[s]
       IN  reqs' = [reqs EXCEPT ![s] =
                IF ~IsObjectIdFormat(r.id)
                THEN Respond(r, 400, "Invalid issue ID format", {}, <<>>)
                ELSE LET q == [r EXCEPT !.reads = @ + 1,
                                        !.oid = CastObjectId(r.id)]
                     IN  IF q.oid \notin DOMAIN issues
                         THEN Respond(q, 404, "Issue not found", {}, <<>>)
                         ELSE IF issues[q.oid].author # r.user
                         THEN Respond(q, 403, "Not authorized to delete this issue",
                                      {}, <<>>)
                         ELSE [q EXCEPT !.pc = "delete"]]
    /\ UNCHANGED <<issues, comments, issueSeq, commentSeq, deleted, served, hist>>

\* The id check and Issue.findById(issueId).
DeleteFind(s) ==
    /\ reqs[s].pc = "handler"
    /\ reqs[s].op = "deleteIssue"
    /\ LET r == reqs[s]
       IN  reqs' = [reqs EXCEPT ![s] =
                IF ~IsObjectIdFormat(r.id)
                THEN Respond(r, 400, "Invalid issue ID format", {}, <<>>)
                ELSE LET q == [r EXCEPT !.reads = @ + 1,
                                        !.oid = CastObjectId(r.id)]
                     IN  IF q.oid \notin DOMAIN issues
                         THEN Respond(q, 404, "Issue not found", {}, <<>>)
                         ELSE [q EXCEPT !.pc = "delete"]]
    /\ UNCHANGED <<issues, comments, issueSeq, commentSeq, deleted, served, hist>>

\* Faulty variant: the comments are removed first, the issue kept for later.
DeleteIssueCommentsFirst(s) ==
    /\ reqs[s].pc = "delete"
    /\ LET r == reqs[s]
       IN  /\ comments' = [c \in {d \in DOMAIN comments : comments[d].issue # r.oid}
                                |-> comments[c]]
           /\ reqs' = [reqs EXCEPT ![s] =
                          [r EXCEPT !.pc = "deleteComments", !.writes = @ + 1]]
    /\ UNCHANGED <<issues, issueSeq, commentSeq, deleted, served, hist>>

\* Issue.findByIdAndDelete(issueId)
DeleteIssue(s) ==
    /\ reqs[s].pc = "delete"
    /\ LET r == reqs[s]
       IN  /\ issues' = [i \in DOMAIN issues \ {r.oid} |-> issues[i]]
           /\ reqs' = [reqs EXCEPT ![s] =
                          [r EXCEPT !.pc = "deleteComments", !.writes = @ + 1]]
    /\ UNCHANGED <<comments, issueSeq, commentSeq, deleted, served, hist>>

\* Faulty variant: the issue is deleted without its comments.
CommentsLeftAll(i) == DOMAIN comments

\* The comments Comment.deleteMany({ issue: i }) leaves.
CommentsLeft(i) == {c \in DOMAIN comments : comments[c].issue # i}

\* Comment.deleteMany({ issue: issueId }), then the success response.
DeleteComments(s) ==
    /\ reqs[s].pc = "deleteComments"
    /\ LET r == reqs[s]
       IN  /\ comments' = [c \in CommentsLeft(r.oid) |-> comments[c]]
           /\ reqs' = [reqs EXCEPT ![s] =
                          Respond([r EXCEPT !.writes = @ + 1], 200,
                                  "Issue and associated comments deleted successfully",
                                  {}, <<>>)]
           /\ deleted' = deleted \cup {r.oid}
           /\ hist' = [i \in DOMAIN hist \ {r.oid} |-> hist[i]]
    /\ UNCHANGED <<issues, issueSeq, commentSeq, served>>

(***************************************************************************)
(* GET /:id/comments                                                       *)
(***************************************************************************)
\* Faulty variant: the comments queried without looking the issue up.
CommentsFindIssueUnchecked(s) ==
    /\ reqs[s].pc = "handler"
    /\ reqs[s].op = "listComments"
    /\ LET r == reqs[s]
       IN  reqs' = [reqs EXCEPT ![s] =
                IF ~IsObjectIdFormat(r.id)
                THEN Respond(r, 400, "Invalid issue ID format", {}, <<>>)
                ELSE [r EXCEPT !.oid = CastObjectId(r.id), !.pc = "find"]]
    /\ UNCHANGED <<issues, comments, issueSeq, commentSeq, deleted, served, hist>>

\* The id check and Issue.findById(issueId).
CommentsFindIssue(s) ==
    /\ reqs[s].pc = "handler"
    /\ reqs[s].op = "listComments"
    /\ LET r == reqs[s]
       IN  reqs' = [reqs EXCEPT ![s] =
                IF ~IsObjectIdFormat(r.id)
                THEN Respond(r, 400, "Invalid issue ID format", {}, <<>>)
                ELSE LET q == [r EXCEPT !.reads = @ + 1,
                                        !.oid = CastObjectId(r.id)]
                     IN  IF q.oid \notin DOMAIN issues
                         THEN Respond(q, 404, "Issue not found", {}, <<>>)
                         ELSE [q EXCEPT !.pc = "find"]]
    /\ UNCHANGED <<issues, comments, issueSeq, commentSeq, deleted, served, hist>>

\* Comment.find({ issue: issueId }).populate().sort(), then the response.
CommentsFind(s) ==
    /\ reqs[s].pc = "find"
    /\ LET r == [reqs[s] EXCEPT !.reads = @ + 1]
       IN  reqs' = [reqs EXCEPT ![s] = Respond(r, 200, "", {}, FindComments(r.oid))]
    /\ UNCHANGED <<issues, comments, issueSeq, commentSeq, deleted, served, hist>>

(***************************************************************************)
(* POST /:id/comments                                                      *)
(***************************************************************************)
\* Faulty variant: !content || content.length === 0
ContentMissingUntrimmed(body) == ~Has(body, "content") \/ Len(body["content"]) = 0

\* !content || content.trim().length === 0
ContentMissing(body) == ~Has(body, "content") \/ Len(Trim(body["content"])) = 0

\* The id check, the content check and Issue.findById(issueId).
AddCommentFind(s) ==
    /\ reqs[s].pc = "handler"
    /\ reqs[s].op = "addComment"
    /\ LET r == reqs[s]
       IN  reqs' = [reqs EXCEPT ![s] =
                IF ~IsObjectIdFormat(r.id)
                THEN Respond(r, 400, "Invalid issue ID format", {}, <<>>)
                ELSE IF ContentMissing(r.body)
                THEN Respond(r, 400, "Comment content is required", {}, <<>>)
                ELSE LET q == [r EXCEPT !.reads = @ + 1,
                                        !.oid = CastObjectId(r.id)]
                     IN  IF q.oid \notin DOMAIN issues
                         THEN Respond(q, 404, "Issue not found", {}, <<>>)
                         ELSE [q EXCEPT !.pc = "create"]]
    /\ UNCHANGED <<issues, comments, issueSeq, commentSeq, deleted, served, hist>>

\* { content: content.trim(), author: req.user.id, issue: issueId }
CommentData(r) ==
    [content |-> Trim(r.body["content"]), author |-> r.user, issue |-> r.oid]

\* Comment.create(...): the insert into the comment store.
InsertComment(c, doc) ==
    [x \in DOMAIN comments \cup {c} |-> IF x = c THEN doc ELSE comments[x]]

AddCommentCreate(s) ==
    /\ reqs[s].pc = "create"
    /\ LET r == reqs[s]
           new == commentSeq + 1
       IN  /\ comments' = InsertComment(new, CommentData(r))
           /\ commentSeq' = new
           /\ reqs' = [reqs EXCEPT ![s] =
                          [r EXCEPT !.pc = "populate", !.writes = @ + 1,
                                    !.data = <<[id |-> new, doc |-> CommentData(r)]>>]]
    /\ UNCHANGED <<issues, issueSeq, deleted, served, hist>>

\* Comment.findById(comment._id).populate(...), then 201.
AddCommentPopulate(s) ==
    /\ reqs[s].pc = "populate"
    /\ reqs[s].op = "addComment"
    /\ LET r == [reqs[s] EXCEPT !.reads = @ + 1]
           c == r.data[1].id
       IN  reqs' = [reqs EXCEPT ![s] =
                Respond(r, 201, "Comment added successfully", {},
                        IF c \in DOMAIN comments
                        THEN <<[id |-> c, doc |-> comments[c]]>> ELSE <<>>)]
    /\ hist' = [i \in DOMAIN hist |->
                    IF i = reqs[s].oid THEN [hist[i] EXCEPT !.added = @ + 1]
                    ELSE hist[i]]
    /\ UNCHANGED <<issues, comments, issueSeq, commentSeq, deleted, served>>

(***************************************************************************)
(* Failures: a rejected model call, and the end of the process.            *)
(***************************************************************************)
\* The message of the catch block of each route.
FailMessages ==
    [listAllIssues |-> "Failed to fetch issues",
     listMyIssues |-> "Failed to fetch your issues",
     myStatistics |-> "Failed to fetch statistics",
     getIssue |-> "Failed to fetch issue",
     createIssue |-> "Failed to create issue",
     updateIssue |-> "Failed to update issue",
     deleteIssue |-> "Failed to delete issue",
     listComments |-> "Failed to fetch comments",
     addComment |-> "Failed to add comment"]

\* The request's next step is an awaited call on a model.
AwaitsModel(r) ==
    \/ r.pc \in {"counts", "populate", "update", "delete", "deleteComments",
                 "find", "create"}
    \/ r.pc = "handler" /\ r.op \in {"listAllIssues", "listMyIssues", "myStatistics"}

\* catch (error): not a ValidationError, so the 500 of the route.
Caught(r) == Respond(r, 500, FailMessages[r.op], {}, <<>>)

\* The awaited call rejects without having written anything; if it is one
\* of a Promise.all, the Promise.all rejects with it.
Reject(s) ==
    /\ AwaitsModel(reqs[s])
    /\ reqs[s].pc # "deleteComments"
    /\ reqs' = [reqs EXCEPT ![s] = Caught(reqs[s])]
    /\ UNCHANGED <<issues, comments, issueSeq, commentSeq, deleted, served, hist>>

\* Comment.deleteMany rejects, having removed any part of the comments.
DeleteCommentsReject(s) ==
    /\ reqs[s].pc = "deleteComments"
    /\ \E gone \in SUBSET {c \in DOMAIN comments : comments[c].issue = reqs[s].oid} :
          comments' = [c \in DOMAIN comments \ gone |-> comments[c]]
    /\ reqs' = [reqs EXCEPT ![s] = Caught(reqs[s])]
    /\ UNCHANGED <<issues, issueSeq, commentSeq, deleted, served, hist>>

\* The process ends with the request in flight: no response, and the store,
\* which is another process, as the calls made so far left it.
Crash(s) ==
    /\ InFlight(s)
    /\ reqs' = [reqs EXCEPT ![s] = IdleReq]
    /\ UNCHANGED <<issues, comments, issueSeq, commentSeq, deleted, served, hist>>

(***************************************************************************)
(* The router.                                                             *)
(***************************************************************************)
\* One step of the request in slot s.
Step(s) ==
    \/ Close(s)
    \/ Protect(s)
    \/ ListFind(s)
    \/ \E k \in 1..MaxIssues : ListCount(s, k)
    \/ \E key \in StatKeys : StatsCount(s, key)
    \/ GetIssue(s)
    \/ CreateIssue(s)
    \/ CreatePopulate(s)
    \/ UpdateFind(s)
    \/ UpdateApply(s)
    \/ DeleteFind(s)
    \/ DeleteIssue(s)
    \/ DeleteComments(s)
    \/ CommentsFindIssue(s)
    \/ CommentsFind(s)
    \/ AddCommentFind(s)
    \/ AddCommentCreate(s)
    \/ AddCommentPopulate(s)

\* The requests a client may send: every route, with a token, and the ids
\* and bodies of the given sets.
Request(s, tokens, ids, issueBodies, commentBodies) ==
    \E op \in Ops, token \in tokens :
        \E id \in (IF op \in IdOps THEN ids ELSE {NoId}) :
            \E body \in (CASE op \in {"createIssue", "updateIssue"} -> issueBodies
                           [] op = "addComment" -> commentBodies
                           [] OTHER -> {NoBody}) :
                Arrive(s, op, token, id, body)

ValidTokens == {t \in Tokens : ResolveIdentity(t) # NoUser}

FirstId == ObjectIdString(GenId(1))

\* Requests served one at a time, each to completion before the next arrives.
SerialNext ==
    \/ Request("r1", ValidTokens, ParamIds, IssueBodies, CommentBodies)
    \/ Request("r1", Tokens \ ValidTokens, {FirstId},
               {[title |-> TitleOk]}, {[content |-> <<"o", "k">>]})
    \/ Step("r1")

SerialSpec == Init /\ [][SerialNext]_vars

\* Requests served concurrently, one per slot, their store calls interleaved.
\* The clients send well-formed requests on the first issue.
ConcurrentBodies ==
    { [title |-> TitleOk],
      [title |-> TitleMax, priority |-> "High", status |-> "In Progress"],
      [status |-> "Closed", author |-> "u1"] }

Next ==
    \E s \in Slots :
        \/ Request(s, {"tok_u1"}, {FirstId}, ConcurrentBodies,
                   {[content |-> <<" ", "o", "k", " ">>]})
        \/ Step(s)

Spec == Init /\ [][Next]_vars

\* Requests served one at a time, with model calls that may reject and a
\* process that may end.
FaultNext ==
    \/ Request("r1", {"tok_u1"}, {FirstId}, ConcurrentBodies,
               {[content |-> <<" ", "o", "k", " ">>]})
    \/ Step("r1")
    \/ Reject("r1")
    \/ DeleteCommentsReject("r1")
    \/ Crash("r1")

FaultSpec == Init /\ [][FaultNext]_vars

(***************************************************************************)
(* Properties.                                                             *)
(***************************************************************************)
Quiet == \A s \in Slots : ~InFlight(s)

Authenticated(r) == ResolveIdentity(r.token) # NoUser

\* A 24-character hexadecimal string, digits of either case.
WellFormedId(id) ==
    /\ Len(id) = 24
    /\ \A i \in 1..Len(id) : id[i] \in DecDigits \cup LowerHex \cup UpperHex

\* A 24-character lower-case hexadecimal string.
LowerCaseId(id) ==
    /\ Len(id) = 24
    /\ \A i \in 1..Len(id) : id[i] \in DecDigits \cup LowerHex

\* C1: with requests served one after another, whenever no request is in
\* progress every stored comment references a stored issue, and a DELETE
\* answered with success leaves no comment on the issue it deleted.
C1_NoOrphanComments ==
    /\ Quiet => \A c \in DOMAIN comments : comments[c].issue \in DOMAIN issues
    /\ \A s \in Slots :
          (Done(s) /\ reqs[s].op = "deleteIssue" /\ reqs[s].status = 200)
             => \A c \in DOMAIN comments : comments[c].issue # reqs[s].oid

\* A DELETE has been answered with success and has removed the comment
\* that had been added to the issue.
C1_Witness ==
    \E s \in Slots :
        /\ Done(s) /\ reqs[s].op = "deleteIssue" /\ reqs[s].status = 200
        /\ commentSeq >= 1
        /\ Cardinality(DOMAIN comments) < commentSeq

\* C2: whatever the interleaving of POST /:id/comments with DELETE /:id,
\* once both have finished no stored comment references an issue whose
\* deletion was answered with success.
C2_NoCommentOnDeletedIssue ==
    Quiet => \A c \in DOMAIN comments : comments[c].issue \notin deleted

\* C3: PUT /:id never changes the author of a stored issue.
C3_UpdateKeepsAuthor ==
    [][\A i \in DOMAIN issues \cap DOMAIN issues' :
            issues'[i].author = issues[i].author]_vars

\* C4: the issue POST / stores, and the one it answers with, has the acting
\* user as its author, whatever author the body carries.
C4_CreateForcesAuthor ==
    \A s \in Slots :
        LET r == reqs[s] IN
        (r.op = "createIssue" /\ Authenticated(r)) =>
            /\ r.pc = "populate" =>
                  /\ r.oid \in DOMAIN issues
                  /\ issues[r.oid].author = ResolveIdentity(r.token)
            /\ (r.pc = "done" /\ r.status = 201) =>
                  /\ r.oid \in DOMAIN issues
                  /\ issues[r.oid].author = ResolveIdentity(r.token)
                  /\ Len(r.data) = 1
                  /\ r.data[1].doc.author = ResolveIdentity(r.token)

\* An issue has been created from a body that names another user as author.
C4_Witness ==
    \E s \in Slots :
        LET r == reqs[s] IN
        /\ Done(s) /\ r.op = "createIssue" /\ r.status = 201
        /\ Has(r.body, "author")
        /\ r.body["author"] # ResolveIdentity(r.token)
        /\ issues[r.oid].author = ResolveIdentity(r.token)

C5_Gate ==
    \A s \in Slots :
        LET r == reqs[s] IN
        (r.op # "none" /\ ~Authenticated(r)) =>
            /\ r.pc \in {"protect", "done"}
            /\ r.reads = 0 /\ r.writes = 0
            /\ r.pc = "done" => r.status = 401

C5_GateStep ==
    (\E s \in Slots : InFlight(s) /\ ~Authenticated(reqs[s]))
        => (issues' = issues /\ comments' = comments)

\* C5: a request whose token resolves to no user never gets past the
\* authentication gate: it makes no call on the issue or comment store, the
\* stores do not change while it is served, and it ends with 401.
C5_AuthGateFirst == []C5_Gate /\ [][C5_GateStep]_vars

\* A DELETE of a stored issue has been refused with 401 and the issue is
\* still stored.
C5_Witness ==
    \E s \in Slots :
        LET r == reqs[s] IN
        /\ Done(s) /\ r.op = "deleteIssue" /\ r.status = 401
        /\ r.existed
        /\ CastObjectId(r.id) \in DOMAIN issues

\* C6: with no other request running, GET /my-stats answers with counts
\* whose four status counts add up to the total, with solved and ongoing as
\* the sums of their two counts, with the total the number of the user's
\* issues, and with completionRate the number 0 when the total is 0.
C6_StatisticsAddUp ==
    \A s \in Slots :
        LET r == reqs[s] IN
        (Done(s) /\ r.op = "myStatistics" /\ Authenticated(r)) =>
            /\ r.status = 200
            /\ Len(r.data) = 1
            /\ LET d == r.data[1] IN
               /\ d.open + d.inProgress + d.resolved + d.closed = d.total
               /\ d.solved = d.resolved + d.closed
               /\ d.ongoing = d.open + d.inProgress
               /\ d.total = Cardinality({i \in DOMAIN issues :
                                            issues[i].author = r.user})
               /\ d.total = 0 => d.completionRate = [type |-> "number", tenths |-> 0]

\* Statistics of a user with one open and one resolved issue.
C6_Witness ==
    \E s \in Slots :
        LET r == reqs[s] IN
        /\ Done(s) /\ r.op = "myStatistics" /\ r.status = 200
        /\ r.data[1].total = 2
        /\ r.data[1].open = 1
        /\ r.data[1].resolved = 1
        /\ r.data[1].completionRate = [type |-> "string", tenths |-> 500]

\* C7 as stated: an id that is not 24 lower-case hexadecimal characters is
\* answered 400 "Invalid issue ID format" without any store call, and a
\* well-formed id that names no stored issue is answered 404.
C7_LowerCaseIdsOnly ==
    \A s \in Slots :
        LET r == reqs[s] IN
        (Done(s) /\ r.op \in IdOps /\ Authenticated(r)) =>
            /\ ~LowerCaseId(r.id) =>
                  /\ r.status = 400 /\ r.msg = "Invalid issue ID format"
                  /\ r.reads = 0 /\ r.writes = 0
            /\ (LowerCaseId(r.id) /\ ~r.existed) => r.status = 404

\* The content check of POST /:id/comments, as the claims state it.
ContentEmpty(body) == ~Has(body, "content") \/ Trim(body["content"]) = <<>>

\* C7, amended: an id that is not 24 hexadecimal characters of either case
\* is answered 400 "Invalid issue ID format" without any store call; an id
\* of that shape that names no stored issue is answered 404 without any
\* write (by POST /:id/comments when the content is not empty).
C7_IdFormat ==
    \A s \in Slots :
        LET r == reqs[s] IN
        (Done(s) /\ r.op \in IdOps /\ Authenticated(r)) =>
            /\ ~WellFormedId(r.id) =>
                  /\ r.status = 400 /\ r.msg = "Invalid issue ID format"
                  /\ r.reads = 0 /\ r.writes = 0
            /\ (/\ WellFormedId(r.id)
                /\ ~r.existed
                /\ r.op = "addComment" => ~ContentEmpty(r.body)) =>
                  /\ r.status = 404 /\ r.msg = "Issue not found"
                  /\ r.reads = 1 /\ r.writes = 0

\* GET /:id with the upper-case spelling of a stored issue's id has
\* returned that issue.
C7_Witness ==
    \E s \in Slots :
        LET r == reqs[s] IN
        /\ Done(s) /\ r.op = "getIssue"
        /\ r.id = ObjectIdUpperString(GenId(1))
        /\ r.status = 200
        /\ r.data[1].id = GenId(1)

\* C8: a GET /:id or GET /:id/comments that arrives after the DELETE of
\* that id was answered with success is answered 404, and no request on
\* that id arriving after it is answered with a comment or an issue.
C8_DeletedStaysNotFound ==
    \A s \in Slots :
        LET r == reqs[s] IN
        (Done(s) /\ r.gone) =>
            /\ r.op \in {"getIssue", "listComments"} => r.status = 404
            /\ Len(r.data) = 0

\* GET /:id/comments after the deletion of an issue that had a comment.
C8_Witness ==
    \E s \in Slots :
        LET r == reqs[s] IN
        /\ Done(s) /\ r.gone /\ r.op = "listComments" /\ r.status = 404
        /\ commentSeq >= 1

TitleOutOfRange(body) ==
    /\ Has(body, "title")
    /\ \/ Len(Trim(body["title"])) < 3
       \/ Len(Trim(body["title"])) > 200

TitleMessages ==
    {"Issue title is required", "Title must be at least 3 characters long",
     "Title cannot exceed 200 characters"}

C9_StoredTitles ==
    \A i \in DOMAIN issues :
        Len(issues[i].title) >= 3 /\ Len(issues[i].title) <= 200

C9_Rejected ==
    \A s \in Slots :
        LET r == reqs[s] IN
        (/\ r.op \in {"createIssue", "updateIssue"}
         /\ Authenticated(r)
         /\ TitleOutOfRange(r.body)) =>
            /\ issues' = issues
            /\ (/\ r.pc # "done" /\ reqs'[s].pc = "done"
                /\ r.op = "updateIssue" => (WellFormedId(r.id) /\ r.existed)) =>
                  /\ reqs'[s].status = 400
                  /\ reqs'[s].msg = "Validation failed"
                  /\ reqs'[s].errors \cap TitleMessages # {}

\* C9: POST / and, on a stored issue, PUT /:id with a title whose trimmed
\* length is below 3 or above 200 are answered 400 "Validation failed" with
\* a title error and leave the issue store as it was; every stored issue
\* has a title of 3 to 200 characters.
C9_TitleLength == []C9_StoredTitles /\ [][C9_Rejected]_vars

\* A PUT with a 201-character title and a valid status has been refused,
\* and the stored issue has neither.
C9_Witness ==
    \E s \in Slots :
        LET r == reqs[s] IN
        /\ Done(s) /\ r.op = "updateIssue" /\ r.status = 400
        /\ r.existed
        /\ TitleOutOfRange(r.body)
        /\ Has(r.body, "status")
        /\ issues[r.oid].status # r.body["status"]
        /\ Len(issues[r.oid].title) = 3

C10_Answer ==
    \A s \in Slots :
        LET r == reqs[s] IN
        (Done(s) /\ r.op = "addComment" /\ Authenticated(r) /\ WellFormedId(r.id)) =>
            IF ContentEmpty(r.body)
            THEN /\ r.status = 400 /\ r.msg = "Comment content is required"
                 /\ r.writes = 0
            ELSE IF ~r.existed
            THEN r.status = 404 /\ r.writes = 0
            ELSE /\ r.status = 201
                 /\ commentSeq \in DOMAIN comments
                 /\ comments[commentSeq] =
                       [content |-> Trim(r.body["content"]),
                        author |-> ResolveIdentity(r.token),
                        issue |-> CastObjectId(r.id)]
                 /\ r.data = <<[id |-> commentSeq, doc |-> comments[commentSeq]]>>

C10_Write ==
    \A s \in Slots :
        LET r == reqs[s] IN
        (r.op = "addComment" /\ InFlight(s)) =>
            \/ comments' = comments
            \/ /\ ~ContentEmpty(r.body)
               /\ r.existed
               /\ CastObjectId(r.id) \in DOMAIN issues
               /\ DOMAIN comments' = DOMAIN comments \cup {commentSeq + 1}
               /\ \A c \in DOMAIN comments : comments'[c] = comments[c]

\* C10: with requests served one after another, POST /:id/comments is
\* answered 400 on content that is empty after trimming and 404 on an id
\* that names no stored issue, writing nothing in either case; otherwise it
\* adds one comment with the trimmed content, the acting user and the issue,
\* and answers 201 with it.
C10_AddComment == []C10_Answer /\ [][C10_Write]_vars

\* A comment whose content had surrounding blanks has been stored trimmed.
C10_Witness ==
    \E s \in Slots :
        LET r == reqs[s] IN
        /\ Done(s) /\ r.op = "addComment" /\ r.status = 201
        /\ Len(r.body["content"]) > Len(comments[commentSeq].content)
        /\ comments[commentSeq].content = <<"o", "k">>

\* The value the read-back of a field is compared with: the draft's own, or
\* the default of a field the draft leaves out.
DraftValue(draft, f) ==
    IF f \in DOMAIN draft THEN draft[f]
    ELSE IF f = "status" THEN "Open"
    ELSE IF f = "priority" THEN "Low"
    ELSE <<>>

DraftFields == {"title", "description", "status", "priority", "assignee"}

\* A GET /:id answered with the issue, the request that follows its POST /.
ReadBack(r) ==
    /\ r.pc = "done" /\ r.op = "getIssue" /\ r.status = 200
    /\ Len(r.data) = 1
    /\ r.data[1].id \in DOMAIN hist
    /\ hist[r.data[1].id].creator # NoUser

\* C11 as stated: the issue read back right after its creation has the
\* title, description, status, priority and assignee of the draft, character
\* for character, the defaults where the draft leaves them out, and the
\* creating user as author.
C11_IdenticalToDraft ==
    \A s \in Slots :
        LET r == reqs[s] IN
        ReadBack(r) =>
            /\ r.data[1].id = CastObjectId(r.id)
            /\ \A f \in DraftFields :
                  r.data[1].doc[f] = DraftValue(hist[r.data[1].id].draft, f)
            /\ r.data[1].doc.author = hist[r.data[1].id].creator

\* C11: the issue read back right after its creation has the status and
\* priority of the draft and its title, description and assignee without
\* their leading and trailing white space, the defaults Open, Low and empty
\* where the draft leaves them out, and the creating user as author.
C11_CreateThenGet ==
    \A s \in Slots :
        LET r == reqs[s] IN
        ReadBack(r) =>
            /\ r.data[1].id = CastObjectId(r.id)
            /\ \A f \in {"status", "priority"} :
                  r.data[1].doc[f] = DraftValue(hist[r.data[1].id].draft, f)
            /\ \A f \in {"title", "description", "assignee"} :
                  r.data[1].doc[f] = Trim(DraftValue(hist[r.data[1].id].draft, f))
            /\ r.data[1].doc.author = hist[r.data[1].id].creator
            /\ hist[r.data[1].id].creator \in Users

\* An issue created from a draft with a description and an assignee padded
\* with blanks has been read back.
C11_Witness ==
    \E s \in Slots :
        LET r == reqs[s] IN
        /\ ReadBack(r)
        /\ Has(hist[r.data[1].id].draft, "description")
        /\ Has(hist[r.data[1].id].draft, "assignee")
        /\ r.data[1].doc.description # hist[r.data[1].id].draft["description"]
        /\ r.data[1].doc.status = "In Progress"

\* The issues a listing answered by r has to show.
Listed(r) ==
    IF r.op = "listMyIssues"
    THEN {i \in DOMAIN issues : issues[i].author = ResolveIdentity(r.token)}
    ELSE DOMAIN issues

\* C12: a listing shows each issue it has to show once, GET /my-issues those
\* of the acting user and no other, and the commentCount of each is the
\* number of stored comments that reference it, which is the number of
\* POST /:id/comments answered with success for it: 0 for a new issue.
C12_ListCounts ==
    \A s \in Slots :
        LET r == reqs[s] IN
        (r.pc = "done" /\ r.op \in {"listAllIssues", "listMyIssues"}
            /\ Authenticated(r)) =>
            /\ r.status = 200
            /\ {r.data[k].id : k \in 1..Len(r.data)} = Listed(r)
            /\ Len(r.data) = Cardinality(Listed(r))
            /\ \A k \in 1..Len(r.data) :
                  /\ r.data[k].commentCount =
                        Cardinality({c \in DOMAIN comments :
                                        comments[c].issue = r.data[k].id})
                  /\ r.data[k].commentCount = hist[r.data[k].id].added

\* GET /my-issues has shown one of two stored issues, with its one comment.
C12_Witness ==
    \E s \in Slots :
        LET r == reqs[s] IN
        /\ Done(s) /\ r.op = "listMyIssues" /\ r.status = 200
        /\ Cardinality(DOMAIN issues) = 2
        /\ Len(r.data) = 1
        /\ r.data[1].commentCount = 1
        /\ hist[r.data[1].id].added = 1

\* A PUT /:id or DELETE /:id by an authenticated user, answered, for a
\* well-formed id of an issue that was stored when the request arrived, the
\* patch of the PUT passing the validators.
ActsOnStored(r) ==
    /\ r.pc = "done" /\ r.op \in {"updateIssue", "deleteIssue"}
    /\ Authenticated(r)
    /\ IsObjectIdFormat(r.id)
    /\ r.existed
    /\ r.op = "updateIssue" => UpdateErrors(r.body) = {}

\* C13: PUT /:id and DELETE /:id succeed for any authenticated user, the
\* author of the issue or not: neither is ever answered 403, the update is
\* written and the deleted issue is gone.
C13_NoOwnershipCheck ==
    \A s \in Slots :
        LET r == reqs[s] IN
        /\ r.pc = "done" => r.status # 403
        /\ ActsOnStored(r) =>
              /\ r.status = 200
              /\ r.op = "deleteIssue" => r.oid \notin DOMAIN issues
              /\ r.op = "updateIssue" =>
                    /\ r.oid \in DOMAIN issues
                    /\ \A f \in DOMAIN r.body :
                          issues[r.oid][f] = CastPath(f, r.body[f])

\* A user who is not the author of the issue has deleted it.
C13_Witness ==
    \E s \in Slots :
        LET r == reqs[s] IN
        /\ ActsOnStored(r) /\ r.op = "deleteIssue" /\ r.status = 200
        /\ r.owner \in Users
        /\ r.owner # ResolveIdentity(r.token)
        /\ r.oid \notin DOMAIN issues

EnumMessages ==
    [status |-> "Status must be one of: Open, In Progress, Resolved, Closed",
     priority |-> "Priority must be one of: Low, Medium, High, Urgent"]

EnumValues ==
    [status |-> {"Open", "In Progress", "Resolved", "Closed"},
     priority |-> {"Low", "Medium", "High", "Urgent"}]

\* The body of r gives a status or a priority outside its set.
OutsideEnum(r, f) == Has(r.body, f) /\ r.body[f] \notin EnumValues[f]

C14_StoredEnums ==
    \A i \in DOMAIN issues :
        \A f \in {"status", "priority"} : issues[i][f] \in EnumValues[f]

\* A step while a POST / or PUT /:id whose body gives a value outside the set
\* is being served leaves the store as it was, and the step that answers it,
\* the PUT being for a stored issue, answers 400 with the message of the field.
C14_Rejected ==
    \A s \in Slots :
        LET r == reqs[s] IN
        \A f \in {"status", "priority"} :
            (/\ r.op \in {"createIssue", "updateIssue"}
             /\ Authenticated(r)
             /\ OutsideEnum(r, f)) =>
                /\ issues' = issues
                /\ comments' = comments
                /\ (/\ r.pc # "done" /\ reqs'[s].pc = "done"
                    /\ r.op = "updateIssue" => (WellFormedId(r.id) /\ r.existed)) =>
                      /\ reqs'[s].status = 400
                      /\ reqs'[s].msg = "Validation failed"
                      /\ EnumMessages[f] \in reqs'[s].errors
                      /\ reqs'[s].writes = 0

\* C14: every stored issue has its status in {Open, In Progress, Resolved,
\* Closed} and its priority in {Low, Medium, High, Urgent}; a POST / or a
\* PUT /:id with a value outside the set is answered with the validation
\* error and changes nothing.
C14_Enums == []C14_StoredEnums /\ [][C14_Rejected]_vars

\* A patch with status Done and priority Critical has been turned down on a
\* stored issue, which keeps its status Resolved.
C14_Witness ==
    \E s \in Slots :
        LET r == reqs[s] IN
        /\ Done(s) /\ r.op = "updateIssue" /\ r.status = 400
        /\ OutsideEnum(r, "status") /\ OutsideEnum(r, "priority")
        /\ r.existed
        /\ EnumMessages["status"] \in r.errors
        /\ issues[r.oid].status = "Resolved"

\* The DELETE in slot s has removed the issue and not yet its comments, added
\* while the issue was stored.
BetweenDeletes(s) ==
    /\ reqs[s].op = "deleteIssue" /\ reqs[s].pc = "deleteComments"
    /\ reqs[s].oid \notin DOMAIN issues
    /\ reqs[s].oid \in DOMAIN hist
    /\ hist[reqs[s].oid].added >= 1
    /\ \E c \in DOMAIN comments : comments[c].issue = reqs[s].oid

\* C15: DELETE /:id removes the issue and its comments in one atomic step:
\* no other request reads the store in a state where the issue is gone and
\* comments that reference it are still stored.
C15_AtomicCascade ==
    [][\A s \in Slots :
          BetweenDeletes(s) =>
              \A t \in Slots \ {s} : reqs'[t].reads <= reqs[t].reads]_vars

\* A step removes comments only of an issue that is already gone.
IssueGoesFirst ==
    \A c \in DOMAIN comments \ DOMAIN comments' :
        comments[c].issue \notin DOMAIN issues

\* An issue that has been removed does not come back.
NoRollback ==
    \A k \in 1..issueSeq :
        GenId(k) \notin DOMAIN issues => GenId(k) \notin DOMAIN issues'

\* A DELETE /:id that ends after its first write otherwise than with
\* success ends with the 500 of the route, the issue gone.
DeleteFailureReported ==
    \A s \in Slots :
        (/\ reqs[s].op = "deleteIssue"
         /\ reqs[s].pc \in {"delete", "deleteComments"}
         /\ reqs'[s].pc = "done" /\ reqs'[s].status # 200) =>
            /\ reqs'[s].status = 500
            /\ reqs'[s].msg = "Failed to delete issue"
            /\ reqs[s].pc = "deleteComments" => reqs[s].oid \notin DOMAIN issues'

\* C16: DELETE /:id removes the issue before its comments and nothing is
\* rolled back: when the removal of the comments fails or the process ends
\* after the issue is removed, the issue is gone and at worst its comments
\* are left; the issue is never stored with its comments removed, and the
\* failure is answered as an internal error.
C16_IssueFirstNoRollback ==
    [][IssueGoesFirst /\ NoRollback /\ DeleteFailureReported]_vars

\* A DELETE /:id has been answered 500 with the issue gone and a comment
\* that references it left in the store.
C16_Witness ==
    \E s \in Slots :
        LET r == reqs[s] IN
        /\ Done(s) /\ r.op = "deleteIssue" /\ r.status = 500
        /\ r.writes = 1
        /\ r.oid \notin DOMAIN issues
        /\ \E c \in DOMAIN comments : comments[c].issue = r.oid

\* The record that results from one more patch applied to doc, the patch's
\* fields written over the record's and every other field kept.
PatchedOnce(doc, patch) ==
    [f \in SchemaPaths |->
        IF f \in DOMAIN patch THEN NewDocument(patch)[f] ELSE doc[f]]

\* The PUT in slot s is answered 200 in this step, the issue being stored.
UpdateWrites(s, i) ==
    /\ reqs[s].op = "updateIssue" /\ reqs[s].pc = "update"
    /\ reqs[s].oid = i
    /\ reqs'[s].pc = "done" /\ reqs'[s].status = 200

\* C17: PUT /:id requests on one issue follow last-write-wins: every write
\* of a PUT applies its patch to the record as the store holds it at that
\* moment, and nothing else changes a stored record, so the record is the
\* created one with the patches applied one after another in the order the
\* store applied the writes.
C17_LastWriteWins ==
    [][\A i \in DOMAIN issues \cap DOMAIN issues' :
          /\ \A s \in Slots :
                UpdateWrites(s, i) =>
                    issues'[i] = PatchedOnce(issues[i], reqs[s].body)
          /\ issues'[i] # issues[i] => \E s \in Slots : UpdateWrites(s, i)]_vars

\* Two PUTs with different patches have both been answered 200 for the same
\* issue; the record has the priority of the one and the status of the other.
C17_Witness ==
    \E s, t \in Slots :
        /\ s # t
        /\ Done(s) /\ reqs[s].op = "updateIssue" /\ reqs[s].status = 200
        /\ Done(t) /\ reqs[t].op = "updateIssue" /\ reqs[t].status = 200
        /\ reqs[s].oid = reqs[t].oid
        /\ reqs[s].oid \in DOMAIN issues
        /\ Has(reqs[s].body, "priority") /\ ~Has(reqs[t].body, "priority")
        /\ Has(reqs[t].body, "status")
        /\ issues[reqs[s].oid].priority = reqs[s].body["priority"]
        /\ issues[reqs[s].oid].status = reqs[t].body["status"]
        /\ reqs[s].data[1].doc.status # reqs[t].body["status"]

\* C18: a listing whose Issue.find has answered is answered with the issues,
\* a comment count that could not be obtained shown as 0: a failing count
\* never turns the listing into an error.
C18_MissingCountIsZero ==
    \A s \in Slots :
        LET r == reqs[s] IN
        (/\ r.pc = "done"
         /\ r.op \in {"listAllIssues", "listMyIssues"}
         /\ Authenticated(r)
         /\ r.reads >= 1) =>
            /\ r.status = 200
            /\ \A k \in 1..Len(r.data) : r.data[k].commentCount >= 0

\* C19: the statistics GET /my-stats answers with add up, and describe one
\* state of the store, also while issues are created, patched and deleted:
\* open + inProgress + resolved + closed = total.
C19_ConsistentStatistics ==
    \A s \in Slots :
        LET r == reqs[s] IN
        (Done(s) /\ r.op = "myStatistics" /\ r.status = 200) =>
            LET c == r.data[1] IN
            c.open + c.inProgress + c.resolved + c.closed = c.total

\* C20: PUT /:id answers success only with the updated issue as data: with a
\* DELETE /:id of the same issue under way it ends NotFound or with success
\* and the updated issue, never with success and no data, and it never
\* stores again an issue that was deleted.
C20_UpdateAnswersIssue ==
    \A s \in Slots :
        LET r == reqs[s] IN
        (Done(s) /\ r.op = "updateIssue" /\ r.status = 200) =>
            /\ Len(r.data) = 1
            /\ r.data[1].id = r.oid
            /\ \A f \in DOMAIN r.body : r.data[1].doc[f] = CastPath(f, r.body[f])
=============================================================================
